---- MODULE Spec2Model ----
(***************************************************************************)
(* RVT Link Worksets (HT.tab / BIM Maintenance.panel): the script derives  *)
(* a workset name for every Revit link from the link's file name, creates  *)
(* or locates that workset and moves the link instance and type onto it.   *)
(* Text values are TLA+ strings; a character is a string of length one.    *)
(***************************************************************************)
EXTENDS Integers, Sequences, FiniteSets, TLC

\* ------------------------------------------------------------------------
\* Text helpers: Python str and re, as the script uses them
\* ------------------------------------------------------------------------

\* s[i-1] of Python, for 1 <= i <= Len(s)
CharAt(s, i) == SubSeq(s, i, i)

\* \d of the re module
DigitChars == {"0", "1", "2", "3", "4", "5", "6", "7", "8", "9"}

\* \w of the re module: letters, digits and the underscore
WordChars ==
    {"A", "B", "C", "D", "E", "F", "G", "H", "I", "J", "K", "L", "M",
     "N", "O", "P", "Q", "R", "S", "T", "U", "V", "W", "X", "Y", "Z",
     "a", "b", "c", "d", "e", "f", "g", "h", "i", "j", "k", "l", "m",
     "n", "o", "p", "q", "r", "s", "t", "u", "v", "w", "x", "y", "z",
     "_"} \cup DigitChars

\* \s of the re module, and what str.strip() removes
SpaceChars == {" ", "\t", "\n", "\r"}

\* Length of the longest run of characters of class cls that starts at s[i]:
\* what a greedy cls+ or cls* consumes.
RECURSIVE RunLength(_, _, _)
RunLength(s, i, cls) ==
    IF i <= Len(s) /\ CharAt(s, i) \in cls
    THEN 1 + RunLength(s, i + 1, cls)
    ELSE 0

\* int(c) for a digit character
IntOf(c) ==
    CASE c = "0" -> 0 [] c = "1" -> 1 [] c = "2" -> 2 [] c = "3" -> 3
      [] c = "4" -> 4 [] c = "5" -> 5 [] c = "6" -> 6 [] c = "7" -> 7
      [] c = "8" -> 8 [] c = "9" -> 9

\* str.startswith
startswith(s, p) == Len(p) <= Len(s) /\ SubSeq(s, 1, Len(p)) = p

\* str.replace(old, "") for a non-empty old: every non-overlapping occurrence
\* of old, found from the left, is removed.
RECURSIVE replace(_, _)
replace(s, old) ==
    IF Len(s) < Len(old) THEN s
    ELSE IF SubSeq(s, 1, Len(old)) = old
         THEN replace(SubSeq(s, Len(old) + 1, Len(s)), old)
         ELSE CharAt(s, 1) \o replace(SubSeq(s, 2, Len(s)), old)

\* str.strip(): leading and trailing whitespace removed
RECURSIVE strip(_)
strip(s) ==
    IF s = "" THEN s
    ELSE IF CharAt(s, 1) \in SpaceChars THEN strip(SubSeq(s, 2, Len(s)))
    ELSE IF CharAt(s, Len(s)) \in SpaceChars THEN strip(SubSeq(s, 1, Len(s) - 1))
    ELSE s

\* k times the regex piece (\w+)- read from position pos. \w never matches a
\* dash, so the greedy run is the only way each group can match.
RECURSIVE MatchTokens(_, _, _)
MatchTokens(s, pos, k) ==
    IF k = 0 THEN [ok |-> TRUE, groups |-> <<>>, pos |-> pos]
    ELSE LET n == RunLength(s, pos, WordChars) IN
         IF n = 0 \/ pos + n > Len(s) \/ CharAt(s, pos + n) # "-"
         THEN [ok |-> FALSE, groups |-> <<>>, pos |-> pos]
         ELSE LET rest == MatchTokens(s, pos + n + 1, k - 1) IN
              [ok |-> rest.ok,
               groups |-> <<SubSeq(s, pos, pos + n - 1)>> \o rest.groups,
               pos |-> rest.pos]

\* re.match(r"(\w+)-(\w+)-(\w+)-(\w+)-(\w+)-(\w+)-(\d+)([\w\d\s]*)?", link_name)
\* ok is "match is not None"; groups is list(match.groups()).
match_link_name(link_name) ==
    LET six == MatchTokens(link_name, 1, 6)
        d == RunLength(link_name, six.pos, DigitChars)
        e == RunLength(link_name, six.pos + d, WordChars \cup SpaceChars)
    IN IF six.ok /\ d > 0
       THEN [ok |-> TRUE,
             groups |-> six.groups \o
                        <<SubSeq(link_name, six.pos, six.pos + d - 1),
                          SubSeq(link_name, six.pos + d, six.pos + d + e - 1)>>]
       ELSE [ok |-> FALSE, groups |-> <<>>]

\* re.match(r"(\w+)-(\w+)-(\w+)", file_name), then group(3); '' without a match
file_zone_of(file_name) ==
    LET two == MatchTokens(file_name, 1, 2)
        n == RunLength(file_name, two.pos, WordChars)
    IN IF two.ok /\ n > 0
       THEN SubSeq(file_name, two.pos, two.pos + n - 1)
       ELSE ""

\* ------------------------------------------------------------------------
\* The workset name of one link
\* ------------------------------------------------------------------------

linked_file_prefix == "Z-Linked RVT-"

\* Mutant: the originator is dropped for every discipline when not asked for
originator_segment_any_discipline(discipline, originator, add_originator) ==
    IF ~add_originator THEN "" ELSE "-" \o originator

\* The originator part of instance_name
originator_segment(discipline, originator, add_originator) ==
    IF discipline = "A" /\ ~add_originator THEN "" ELSE "-" \o originator

\* Mutant: the zone is also dropped when it is the zone of the document
zone_segment_legacy(zone, file_zone, add_zone) ==
    IF zone = "ZZ" \/ zone = file_zone \/ ~add_zone THEN "" ELSE "-" \o zone

\* The zone part of instance_name. file_zone is computed by the script and
\* only printed.
zone_segment(zone, file_zone, add_zone) ==
    IF zone = "ZZ" \/ ~add_zone THEN "" ELSE "-" \o zone

\* base_name: the description and the digits removed from link_name
base_name_of(link_name, digits, description) ==
    IF description # ""
    THEN strip(replace(strip(replace(link_name, description)), digits))
    ELSE strip(replace(link_name, digits))

\* Mutant: only the names of the links before link_name are compared
rvt_link_names_seen_so_far(all_rvt_link_names, link_name, file_name) ==
    LET first == CHOOSE k \in 1..(Len(all_rvt_link_names) + 1) :
                     /\ k <= Len(all_rvt_link_names) => all_rvt_link_names[k] = link_name
                     /\ \A h \in 1..(k - 1) : all_rvt_link_names[h] # link_name
    IN SubSeq(all_rvt_link_names, 1, first - 1) \o <<file_name>>

\* The other link names, then the document title
rvt_link_names_with_file_name(all_rvt_link_names, link_name, file_name) ==
    SelectSeq(all_rvt_link_names, LAMBDA s : s # link_name) \o <<file_name>>

\* Mutant: the link's own name is left among the names compared
similar_link_names_with_self(all_rvt_link_names, link_name, file_name, base_name) ==
    SelectSeq(all_rvt_link_names \o <<file_name>>,
              LAMBDA n : startswith(n, base_name))

similar_link_names_of(all_rvt_link_names, link_name, file_name, base_name) ==
    SelectSeq(rvt_link_names_with_file_name(all_rvt_link_names, link_name, file_name),
              LAMBDA n : startswith(n, base_name))

\* Mutant: the comparison is >= 1
needs_number_from_one(last_digit) == IntOf(last_digit) >= 1

\* int(last_digit) > 1: "then we need to add number to the end anyway"
needs_number(last_digit) == IntOf(last_digit) > 1

\* Mutant: the number added is the part number, not the last digit
find_similar_part_names_part(desc, part_number, base_name, last_digit, similar_link_names) ==
    LET similar_part_names ==
            SelectSeq(similar_link_names,
                      LAMBDA p : startswith(p, base_name \o part_number))
        with_number == IF desc # "" THEN desc \o " " \o part_number ELSE part_number
    IN IF needs_number(last_digit) \/ Len(similar_part_names) > 0
       THEN with_number
       ELSE desc

\* Mutant: the number follows the model kind without a space
find_similar_part_names_joined(desc, part_number, base_name, last_digit, similar_link_names) ==
    LET similar_part_names ==
            SelectSeq(similar_link_names,
                      LAMBDA p : startswith(p, base_name \o part_number))
    IN IF needs_number(last_digit) \/ Len(similar_part_names) > 0
       THEN desc \o last_digit
       ELSE desc

\* Mutant: the number is added whether or not another part is linked
find_similar_part_names_always(desc, part_number, base_name, last_digit, similar_link_names) ==
    IF desc # "" THEN desc \o " " \o last_digit ELSE last_digit

find_similar_part_names(desc, part_number, base_name, last_digit, similar_link_names) ==
    LET similar_part_names ==
            SelectSeq(similar_link_names,
                      LAMBDA p : startswith(p, base_name \o part_number))
        with_number == IF desc # "" THEN desc \o " " \o last_digit ELSE last_digit
    IN IF needs_number(last_digit) THEN with_number
       ELSE IF Len(similar_part_names) > 0 THEN with_number
       ELSE desc

\* Whether the branch for names that share their base name treats the link
\* as the Internal (first = "1") or the Facade (first = "2") model
shared_is_kind(digits, discipline, first) ==
    startswith(digits, first) /\ discipline = "A"

\* Whether the branch for a unique base name does
unique_is_kind(digits, discipline, first) ==
    startswith(digits, first)

\* The end of the name: the model kind and the number. raised is the
\* IndexError of digits[1] on a digit run of one character; the arguments of
\* a call are evaluated before the call.
disambiguate(instance_name, digits, discipline, base_name, similar_link_names) ==
    LET last_digit == CharAt(digits, Len(digits))
        named(d) == [raised |-> FALSE, instance_name |-> instance_name \o "-" \o d]
        IndexError == [raised |-> TRUE, instance_name |-> instance_name]
    IN IF Len(similar_link_names) > 0
       THEN IF shared_is_kind(digits, discipline, "1")
            THEN named(find_similar_part_names("Internal", "1", base_name,
                                               last_digit, similar_link_names))
            ELSE IF shared_is_kind(digits, discipline, "2")
            THEN named(find_similar_part_names("Facade", "2", base_name,
                                               last_digit, similar_link_names))
            ELSE IF Len(digits) < 2 THEN IndexError
            ELSE named(find_similar_part_names("", CharAt(digits, 2), base_name,
                                               last_digit, similar_link_names))
       ELSE IF unique_is_kind(digits, discipline, "1")
            THEN named(find_similar_part_names("Internal", "1", base_name,
                                               last_digit, similar_link_names))
            ELSE IF unique_is_kind(digits, discipline, "2")
            THEN named(find_similar_part_names("Facade", "2", base_name,
                                               last_digit, similar_link_names))
            ELSE IF needs_number(last_digit)
                 THEN IF Len(digits) < 2 THEN IndexError
                      ELSE named(CharAt(digits, 2) \o last_digit)
                 ELSE [raised |-> FALSE, instance_name |-> instance_name]

\* Mutant: the zone is read from the fourth token
unpack_zone_fourth(groups) ==
    [originator |-> groups[2], zone |-> groups[4], discipline |-> groups[6],
     digits |-> groups[7], description |-> groups[8]]

\* _, originator, zone, _, _, discipline, digits, description = groups
unpack(groups) ==
    [originator |-> groups[2], zone |-> groups[3], discipline |-> groups[6],
     digits |-> groups[7], description |-> groups[8]]

\* Mutant: the prefix is left out of the workset name
fallback_bare(link_name) ==
    [raised |-> FALSE, matched |-> FALSE, groups |-> <<>>,
     originator |-> "", zone |-> "", base_name |-> "",
     similar_link_names |-> <<>>,
     workset_name |-> link_name,
     instance_name |-> link_name]

\* What the script derives for a name that does not match the pattern
fallback(link_name) ==
    [raised |-> FALSE, matched |-> FALSE, groups |-> <<>>,
     originator |-> "", zone |-> "", base_name |-> "",
     similar_link_names |-> <<>>,
     workset_name |-> linked_file_prefix \o link_name,
     instance_name |-> link_name]

\* One pass of the loop body up to "New Workset name": the names derived for
\* link_name in a run over all_rvt_link_names in the document file_name.
\* originator and zone are the script's variables of that name after their
\* reassignment (the segments); groups is list(match.groups()); raised: the
\* pass ended in an exception, and
\* then workset_name was never assigned (the field is not read).
resolve(link_name, all_rvt_link_names, file_name, add_originator, add_zone) ==
    LET m == match_link_name(link_name) IN
    IF ~m.ok THEN fallback(link_name)
    ELSE LET g == unpack(m.groups)
             discipline == g.discipline
             digits == g.digits
             description == g.description
             originator == originator_segment(discipline, g.originator, add_originator)
             zone == zone_segment(g.zone, file_zone_of(file_name), add_zone)
             base_name == base_name_of(link_name, digits, description)
             similar_link_names ==
                 similar_link_names_of(all_rvt_link_names, link_name, file_name, base_name)
             d == disambiguate(discipline \o originator \o zone, digits, discipline,
                               base_name, similar_link_names)
         IN [raised |-> d.raised, matched |-> TRUE, groups |-> m.groups,
             originator |-> originator, zone |-> zone, base_name |-> base_name,
             similar_link_names |-> similar_link_names,
             workset_name |-> linked_file_prefix \o d.instance_name,
             instance_name |-> d.instance_name]

\* ------------------------------------------------------------------------
\* The run: the document, the prompts and the loop over the links
\* ------------------------------------------------------------------------

VARIABLES
    file_name,            \* doc.Title
    revit_links,          \* link.Name.split(".rvt")[0] of every link, in the collector's order
    add_originator,       \* answer to "Include HTL in the workset name?"
    add_zone,             \* answer to "Include Zone code in the workset name?"
    enable_worksharing,   \* worksharing was enabled by this run
    worksets,             \* names of the user worksets of the document
    workset_dict,         \* names of the snapshot taken before the loop
    link_workset,         \* per link: name of the workset of the instance
    link_type_workset,    \* per link: name of the workset of its type
    link_instance_name,   \* per link: RVT_LINK_INSTANCE_NAME
    link_mark,            \* per link: ALL_MODEL_MARK
    host_fault,           \* per link: the host calls that raise for it
    host_calls,           \* per link: the host calls made for it, in order
    errors_printed,       \* per link: the reports of its except clauses, in order
    new_workset_names,
    used_workset_names,
    count,                \* links taken from revit_links so far
    derived,              \* per link taken: what resolve gave for it
    unused_workset_names, \* the list of lines 279-284
    ver,                  \* int(app.VersionNumber), 0 before it is read
    delete_empty_link_worksets,   \* answer to "Delete empty Z-Linked... Worksets?"
    is_editable,          \* the worksets whose IsEditable the host gave as true
    deleted_worksets,     \* names only: the order of the list is not kept
    not_editable_worksets,
    alert,                \* the text of the closing forms.alert, "" for none
    pc                    \* "loop", "done" (the loop ended), "delete" (deletion
                          \* confirmed), "end", or "raised": ended by an exception

link_vars == <<file_name, revit_links, add_originator, add_zone, enable_worksharing,
          worksets, workset_dict, link_workset, link_type_workset,
          link_instance_name, link_mark, host_fault, host_calls, errors_printed,
          new_workset_names, used_workset_names, count, derived,
          unused_workset_names, ver, delete_empty_link_worksets, is_editable,
          deleted_worksets, not_editable_worksets, alert, pc>>

\* What the part of the script after the loop writes
delete_vars == <<unused_workset_names, ver, delete_empty_link_worksets, is_editable,
                 deleted_worksets, not_editable_worksets, alert>>

\* The state of the Project Parameters Cleaner and the Shared Parameters
\* Cleaner, two scripts with the same steps
VARIABLES
    cleaner,              \* "Project" or "Shared": the script that runs, "" for none
    is_family,            \* doc.IsFamilyDocument
    app_ver,              \* ver = int(app.VersionNumber) of the cleaner
    pp_list,              \* the parameters found (sp_list in the Shared cleaner)
    return_options,       \* the parameters selected to be checked
    parametersToDelete,
    delete_options,       \* the parameters selected to be deleted
    DELETED,
    errors_logged,        \* names of logger.error('Error checking parameter ...')
    alerts,               \* the texts of forms.alert, in order
    cpc                   \* "start", "offer", "end", or "raised"

cleaner_vars == <<cleaner, is_family, app_ver, pp_list, return_options,
                  parametersToDelete, delete_options, DELETED, errors_logged,
                  alerts, cpc>>

\* The state of the Workset Views script. A view is known by its name.
VARIABLES
    worksets_collection,  \* names of the user worksets
    views3D,              \* names of the 3D views of the document, templates aside
    worksetsDict,         \* its keys: the worksets that have no 3D view yet
    existingWorkset3DViews,
    return_viewTemplate,  \* name of the template picked, "<None>", or "" for None
    new3DViews,           \* the views created, in order
    new3DViewsNames,
    allViews,
    workset_visibility,   \* per view of allViews: the worksets set visible in it
    view_alerts,          \* the texts of forms.alert, in order
    vpc                   \* "start", "picked", "end"

views_vars == <<worksets_collection, views3D, worksetsDict, existingWorkset3DViews,
                return_viewTemplate, new3DViews, new3DViewsNames, allViews,
                workset_visibility, view_alerts, vpc>>

\* The state of the scripts that do not run
other_scripts == <<cleaner_vars, views_vars>>

vars == <<link_vars, cleaner_vars, views_vars>>

\* The Workset Views script does not run
ViewsIdle ==
    /\ worksets_collection = {} /\ views3D = {} /\ worksetsDict = {}
    /\ existingWorkset3DViews = {} /\ return_viewTemplate = ""
    /\ new3DViews = <<>> /\ new3DViewsNames = <<>> /\ allViews = {}
    /\ workset_visibility = <<>> /\ view_alerts = <<>> /\ vpc = "end"

\* No cleaner runs
CleanerIdle ==
    /\ cleaner = "" /\ is_family = FALSE /\ app_ver = 0 /\ pp_list = <<>>
    /\ return_options = <<>> /\ parametersToDelete = <<>> /\ delete_options = <<>>
    /\ DELETED = <<>> /\ errors_logged = {} /\ alerts = <<>> /\ cpc = "end"

\* Most links of one run
MaxLinks == 2

\* The host calls of one pass that can raise
HostCalls == {"Create", "SetWorkset", "SetTypeWorkset", "SetName", "SetMark"}

\* The worksets EnableWorksharing('Shared Levels and Grids', 'Workset1') makes
fresh_worksets == {"Shared Levels and Grids", "Workset1"}

\* The state at the first pass of the loop, for link names from Names, titles
\* from Titles, documents from Hosts (worksets: the user worksets, homes: the
\* worksets links are found on, enabled: worksharing enabled by this run) and
\* host failures from Faults.
InitWith(Names, Titles, Hosts, Faults) ==
    /\ file_name \in Titles
    /\ \E n \in 1..MaxLinks : revit_links \in [1..n -> Names]
    /\ add_originator \in BOOLEAN
    /\ add_zone \in BOOLEAN
    /\ \E h \in Hosts :
          /\ enable_worksharing = h.enabled
          /\ worksets = h.worksets
          /\ workset_dict = IF h.enabled THEN {} ELSE h.worksets
          /\ link_workset \in [1..Len(revit_links) -> h.homes]
          /\ link_type_workset \in [1..Len(revit_links) -> h.homes]
    /\ link_instance_name = [i \in 1..Len(revit_links) |-> ""]
    /\ link_mark = [i \in 1..Len(revit_links) |-> ""]
    /\ host_fault \in [1..Len(revit_links) -> Faults]
    /\ host_calls = [i \in 1..Len(revit_links) |-> <<>>]
    /\ errors_printed = [i \in 1..Len(revit_links) |-> <<>>]
    /\ new_workset_names = <<>>
    /\ used_workset_names = <<>>
    /\ count = 0
    /\ derived = <<>>
    /\ unused_workset_names = <<>>
    /\ ver = 0
    /\ delete_empty_link_worksets = FALSE
    /\ is_editable = {}
    /\ deleted_worksets = {}
    /\ not_editable_worksets = {}
    /\ alert = ""
    /\ pc = "loop"
    /\ CleanerIdle
    /\ ViewsIdle

\* Mutant: the call that raised is made a second time
Attempted_again(calls, bad) ==
    LET raising == {k \in 1..Len(calls) : calls[k] \in bad}
        first == CHOOSE k \in raising : \A h \in raising : k <= h
    IN IF raising = {} THEN calls
       ELSE SubSeq(calls, 1, first) \o <<calls[first]>>

\* The calls of one try block that are made when the calls of bad raise:
\* those up to the first that raises
Attempted(calls, bad) ==
    LET raising == {k \in 1..Len(calls) : calls[k] \in bad}
    IN IF raising = {} THEN calls
       ELSE SubSeq(calls, 1, CHOOSE k \in raising : \A h \in raising : k <= h)

\* The try block of the new-workset branch for link i: each call in turn, the
\* first that raises ends the block; what was set before it stays set.
\* Workset.Create raises for a name the document already has. The except
\* clause prints once.
CreateWorkset(i, r) ==
    LET bad == host_fault[i]
        created == "Create" \notin bad /\ r.workset_name \notin worksets
        moved == created /\ "SetWorkset" \notin bad
        typed == moved /\ "SetTypeWorkset" \notin bad
        named == typed /\ "SetName" \notin bad
        marked == named /\ "SetMark" \notin bad
    IN /\ worksets' = IF created THEN worksets \cup {r.workset_name} ELSE worksets
       /\ link_workset' = IF moved THEN [link_workset EXCEPT ![i] = r.workset_name]
                          ELSE link_workset
       /\ link_type_workset' =
              IF typed THEN [link_type_workset EXCEPT ![i] = r.workset_name]
              ELSE link_type_workset
       /\ link_instance_name' =
              IF named THEN [link_instance_name EXCEPT ![i] = r.instance_name]
              ELSE link_instance_name
       /\ link_mark' = IF marked THEN [link_mark EXCEPT ![i] = r.instance_name]
                       ELSE link_mark
       /\ new_workset_names' = IF marked THEN Append(new_workset_names, r.workset_name)
                               ELSE new_workset_names
       /\ host_calls' =
              [host_calls EXCEPT ![i] =
                  Attempted(<<"Create", "SetWorkset", "SetTypeWorkset", "SetName", "SetMark">>,
                            IF created THEN bad ELSE bad \cup {"Create"})]
       /\ errors_printed' =
              IF marked THEN errors_printed
              ELSE [errors_printed EXCEPT ![i] = <<"already exists">>]
       /\ UNCHANGED used_workset_names

\* The existing-workset branch for link i, with Ws = existing_workset[0]
UseWorkset(i, r, Ws) ==
    LET bad == host_fault[i]
        move == ~startswith(Ws, link_workset[i])
        moved == move /\ "SetWorkset" \notin bad
        named == moved /\ "SetName" \notin bad
        marked == named /\ "SetMark" \notin bad
        type_move == ~startswith(Ws, link_type_workset[i])
        typed == type_move /\ "SetTypeWorkset" \notin bad
    IN /\ link_workset' = IF moved THEN [link_workset EXCEPT ![i] = Ws] ELSE link_workset
       /\ link_instance_name' =
              IF named THEN [link_instance_name EXCEPT ![i] = r.instance_name]
              ELSE link_instance_name
       /\ link_mark' = IF marked THEN [link_mark EXCEPT ![i] = r.instance_name]
                       ELSE link_mark
       /\ link_type_workset' = IF typed THEN [link_type_workset EXCEPT ![i] = Ws]
                               ELSE link_type_workset
       /\ used_workset_names' = Append(used_workset_names, Ws)
       /\ host_calls' =
              [host_calls EXCEPT ![i] =
                  (IF move THEN Attempted(<<"SetWorkset", "SetName", "SetMark">>, bad)
                   ELSE <<>>)
                  \o (IF type_move THEN <<"SetTypeWorkset">> ELSE <<>>)]
       /\ errors_printed' =
              [errors_printed EXCEPT ![i] =
                  (IF move /\ ~marked THEN <<"could not be set to RVT link">> ELSE <<>>)
                  \o (IF type_move /\ ~typed
                      THEN <<"could not be set to RVT link type">> ELSE <<>>)]
       /\ UNCHANGED <<worksets, new_workset_names>>

\* One pass of the loop: the names are derived, then the workset is created
\* or located. existing_workset lists the snapshot's names that start with
\* workset_name in the order of the dictionary, which is any order.
ProcessLink ==
    /\ pc = "loop"
    /\ count < Len(revit_links)
    /\ LET i == count + 1
           r == resolve(revit_links[i], revit_links, file_name, add_originator, add_zone)
           existing_workset ==
               IF enable_worksharing THEN {}
               ELSE {name \in workset_dict : startswith(name, r.workset_name)}
       IN /\ count' = i
          /\ derived' = Append(derived, r)
          /\ IF r.raised
             THEN /\ pc' = "raised"
                  /\ UNCHANGED <<worksets, link_workset, link_type_workset,
                                 link_instance_name, link_mark, new_workset_names,
                                 used_workset_names, host_calls, errors_printed>>
             ELSE /\ pc' = "loop"
                  /\ IF existing_workset = {}
                     THEN CreateWorkset(i, r)
                     ELSE \E Ws \in existing_workset : UseWorkset(i, r, Ws)
    /\ UNCHANGED <<file_name, revit_links, add_originator, add_zone,
                   enable_worksharing, workset_dict, host_fault, delete_vars>>
    /\ UNCHANGED other_scripts

\* The loop has taken every link
EndLoop ==
    /\ pc = "loop"
    /\ count = Len(revit_links)
    /\ pc' = "done"
    /\ UNCHANGED <<file_name, revit_links, add_originator, add_zone,
                   enable_worksharing, worksets, workset_dict, link_workset,
                   link_type_workset, link_instance_name, link_mark, host_fault,
                   host_calls, errors_printed,
                   new_workset_names, used_workset_names, count, derived, delete_vars>>
    /\ UNCHANGED other_scripts

Next == ProcessLink \/ EndLoop

\* ------------------------------------------------------------------------
\* After the loop: the worksets no link uses are offered for deletion
\* ------------------------------------------------------------------------

\* The first Revit version whose API deletes worksets
delete_api_version == 2023

\* int(app.VersionNumber) of the hosts considered
Versions == {delete_api_version - 1, delete_api_version}

\* The workset whose IsDefaultWorkset is true
default_workset == "Workset1"

\* The elements of the sequence s
Range(s) == {s[k] : k \in 1..Len(s)}

\* The lists of the names of the set S, each name once
ListsOf(S) ==
    {l \in [1..Cardinality(S) -> S] : \A a, b \in 1..Cardinality(S) : a # b => l[a] # l[b]}

\* sep.join(list)
RECURSIVE join(_, _)
join(sep, list) ==
    IF Len(list) = 0 THEN ""
    ELSE IF Len(list) = 1 THEN list[1]
    ELSE list[1] \o sep \o join(sep, Tail(list))

\* sub in s, of two str
Contains(s, sub) ==
    \E k \in 1..(Len(s) - Len(sub) + 1) : SubSeq(s, k, k + Len(sub) - 1) = sub

\* The alert of line 334, for the joined names
manual_alert(joined) ==
    "It is not possible to delete Worksets using API in Revit 2022 and earlier.\n\nDelete following Worksets manually:\n"
        \o joined

\* Lines 279-297 and 333-334: the snapshot's Z-Linked worksets neither used
\* nor created by the loop are listed in the order of the dictionary; when
\* there are any, a host of 2023 or later asks whether to delete them and an
\* earlier one lists them for manual deletion.
CollectUnused ==
    /\ pc = "done"
    /\ LET unused ==
               IF enable_worksharing THEN {}
               ELSE {ws_name \in workset_dict :
                        /\ startswith(ws_name, "Z-Linked RVT")
                             \/ startswith(ws_name, "Z-Linked-RVT")
                        /\ ws_name \notin Range(used_workset_names)
                        /\ ws_name \notin Range(new_workset_names)}
       IN /\ unused_workset_names' \in ListsOf(unused)
          /\ IF unused = {}
             THEN /\ pc' = "end"
                  /\ UNCHANGED <<ver, delete_empty_link_worksets, alert>>
             ELSE /\ ver' \in Versions
                  /\ IF ver' >= delete_api_version
                     THEN /\ delete_empty_link_worksets' \in BOOLEAN
                          /\ pc' = IF delete_empty_link_worksets' THEN "delete" ELSE "end"
                          /\ alert' = alert
                     ELSE /\ alert' = manual_alert(join(",\n", unused_workset_names'))
                          /\ pc' = "end"
                          /\ UNCHANGED delete_empty_link_worksets
    /\ UNCHANGED <<file_name, revit_links, add_originator, add_zone,
                   enable_worksharing, worksets, workset_dict, link_workset,
                   link_type_workset, link_instance_name, link_mark, host_fault,
                   host_calls, errors_printed, new_workset_names,
                   used_workset_names, count, derived, is_editable,
                   deleted_worksets, not_editable_worksets>>
    /\ UNCHANGED other_scripts

\* Mutant: the closing text names the worksets deleted only
summary_alert_deleted(deleted, not_editable) ==
    IF Len(deleted) > 0 THEN "Deleted Workset:\n" \o join(",\n", deleted) ELSE ""

\* The text of lines 321-332 for the two lists of names: "" when both are
\* empty, and then no alert is shown
summary_alert(deleted, not_editable) ==
    (IF Len(deleted) > 0
     THEN "Deleted Workset:\n" \o join(",\n", deleted)
              \o (IF Len(not_editable) > 0 THEN "\n\n" ELSE "")
     ELSE "")
    \o (IF Len(not_editable) > 0
        THEN "Make these worksets Editable and run the script again or delete manually:\n"
                 \o join(",\n", not_editable)
                 \o "\n\n(It is not possible to delete Worksets using API id they are not Editable)"
        ELSE "")

\* Lines 298-332: every workset of the snapshot whose name occurs in the
\* joined names is to be deleted, in the order of the dictionary; those the
\* host gives as editable are deleted unless DeleteWorkset raises (as it does
\* for the default workset), and their elements go to the default workset.
\* The closing alert names the worksets deleted and those not editable.
DeleteWorksets ==
    /\ pc = "delete"
    /\ LET joined == join(",\n", unused_workset_names)
           delete_worksets == {name \in workset_dict : Contains(joined, name)}
       IN \E order \in ListsOf(delete_worksets) :
          \E editable \in SUBSET delete_worksets :
          \E raising \in SUBSET editable :
             /\ default_workset \in editable => default_workset \in raising
             /\ is_editable' = editable
             /\ deleted_worksets' = editable \ raising
             /\ not_editable_worksets' = delete_worksets \ editable
             /\ worksets' = worksets \ deleted_worksets'
             /\ link_workset' =
                    [i \in DOMAIN link_workset |->
                        IF link_workset[i] \in deleted_worksets' THEN default_workset
                        ELSE link_workset[i]]
             /\ link_type_workset' =
                    [i \in DOMAIN link_type_workset |->
                        IF link_type_workset[i] \in deleted_worksets' THEN default_workset
                        ELSE link_type_workset[i]]
             /\ alert' = summary_alert(
                             SelectSeq(order, LAMBDA n : n \in editable \ raising),
                             SelectSeq(order, LAMBDA n : n \notin editable))
    /\ pc' = "end"
    /\ UNCHANGED <<file_name, revit_links, add_originator, add_zone,
                   enable_worksharing, workset_dict, link_instance_name, link_mark,
                   host_fault, host_calls, errors_printed, new_workset_names,
                   used_workset_names, count, derived, unused_workset_names, ver,
                   delete_empty_link_worksets>>
    /\ UNCHANGED other_scripts

\* The whole run
NextRun == ProcessLink \/ EndLoop \/ CollectUnused \/ DeleteWorksets

\* The link script does not run
LinkIdle ==
    /\ file_name = "" /\ revit_links = <<>>
    /\ add_originator = FALSE /\ add_zone = FALSE /\ enable_worksharing = FALSE
    /\ worksets = {} /\ workset_dict = {}
    /\ link_workset = <<>> /\ link_type_workset = <<>>
    /\ link_instance_name = <<>> /\ link_mark = <<>>
    /\ host_fault = <<>> /\ host_calls = <<>> /\ errors_printed = <<>>
    /\ new_workset_names = <<>> /\ used_workset_names = <<>>
    /\ count = 0 /\ derived = <<>> /\ unused_workset_names = <<>> /\ ver = 0
    /\ delete_empty_link_worksets = FALSE /\ is_editable = {}
    /\ deleted_worksets = {} /\ not_editable_worksets = {} /\ alert = ""
    /\ pc = "end"

\* ------------------------------------------------------------------------
\* The Project Parameters Cleaner and the Shared Parameters Cleaner
\* ------------------------------------------------------------------------

\* The values a parameter gives: None, a str, an int, a float (whole numbers
\* stand for them) and an ElementId
NoneValue == [type |-> "None"]
StrValue(s) == [type |-> "str", s |-> s]
IntValue(n) == [type |-> "int", n |-> n]
FloatValue(n) == [type |-> "float", n |-> n]
ElementIdValue == [type |-> "ElementId"]

\* bool(value): "if value"
truthy(value) ==
    CASE value.type = "None" -> FALSE
      [] value.type = "str" -> value.s # ""
      [] value.type \in {"int", "float"} -> value.n # 0
      [] OTHER -> TRUE

\* value == 0
equals_zero(value) == value.type \in {"int", "float"} /\ value.n = 0

\* What one element gives for the parameter pp in the Project cleaner. The
\* element has the parameter or not (present); raises: reading the value
\* raises. returned: checkIfInUse returns True at this element; logged:
\* after logger.error; alerted: after forms.alert.
project_element_check(pp, e) ==
    LET go_on == [returned |-> FALSE, logged |-> FALSE, alerted |-> FALSE]
        used == [returned |-> TRUE, logged |-> FALSE, alerted |-> FALSE]
    IN IF ~e.present \/ ~e.HasValue THEN go_on
       ELSE IF e.raises THEN [used EXCEPT !.logged = TRUE]
       ELSE IF pp.StorageType = "Integer" /\ pp.YesNo THEN used
       ELSE LET value == IF pp.StorageType \in {"String", "Integer", "Double", "ElementId"}
                         THEN e.value ELSE NoneValue
            IN IF truthy(value) \/ equals_zero(value) THEN used ELSE go_on

\* The same in the Shared cleaner: an element without the parameter gives
\* None, on which par.HasValue raises; the value of an integer that is not
\* Yes/No is not read, as its else belongs to the inner "if par.HasValue".
shared_element_check(sp, e) ==
    LET go_on == [returned |-> FALSE, logged |-> FALSE, alerted |-> FALSE]
        used == [returned |-> TRUE, logged |-> FALSE, alerted |-> FALSE]
    IN IF ~e.present THEN [returned |-> TRUE, logged |-> TRUE, alerted |-> TRUE]
       ELSE IF ~e.HasValue THEN go_on
       ELSE IF e.raises THEN [used EXCEPT !.logged = TRUE]
       ELSE IF sp.StorageType = "Integer" /\ sp.YesNo THEN used
       ELSE LET value == IF sp.StorageType \in {"String", "Double", "ElementId"}
                         THEN e.value ELSE NoneValue
            IN IF truthy(value) THEN used
               ELSE IF truthy(value) \/ equals_zero(value) THEN used
               ELSE go_on

\* checkIfInUse(elements, pp) of the script which: the elements in turn, up
\* to the first at which it returns True; inUse FALSE stands for None.
checkIfInUse(which, pp) ==
    LET check(e) == IF which = "Project" THEN project_element_check(pp, e)
                    ELSE shared_element_check(pp, e)
        hits == {k \in 1..Len(pp.elements) : check(pp.elements[k]).returned}
        first == CHOOSE k \in hits : \A h \in hits : k <= h
    IN IF hits = {} THEN [inUse |-> FALSE, logged |-> FALSE, alerted |-> FALSE]
       ELSE [inUse |-> TRUE, logged |-> check(pp.elements[first]).logged,
             alerted |-> check(pp.elements[first]).alerted]

\* The selections of a multiselect list: the items picked, in list order
RECURSIVE Selections(_)
Selections(list) ==
    IF Len(list) = 0 THEN {<<>>}
    ELSE LET rest == Selections(Tail(list))
         IN rest \cup {<<Head(list)>> \o r : r \in rest}

\* The closing alert of lines 164-167 for a list DELETED that is not empty
deleted_alert(deleted) ==
    IF Len(deleted) > 1
    THEN "Parameters: " \o join(", ", deleted) \o " were deleted from the model."
    ELSE "Parameter \"" \o deleted[1] \o "\" was deleted from the model."

\* From the start to the list of parameters that may be deleted: a family
\* document and a document without parameters end in an alert; the user
\* picks the parameters to check (none: the script ends), and those not in
\* use are collected. The Shared cleaner alerts each HasValue error (the
\* text is cut after the name of the parameter).
CheckParameters ==
    /\ cpc = "start"
    /\ IF is_family
       THEN /\ alerts' = <<"This is a family document. Please open a project document.">>
            /\ cpc' = "end"
            /\ UNCHANGED <<return_options, parametersToDelete, errors_logged>>
       ELSE IF pp_list = <<>>
       THEN /\ alerts' = <<"No Project Parameters in the model.">>
            /\ cpc' = "end"
            /\ UNCHANGED <<return_options, parametersToDelete, errors_logged>>
       ELSE /\ return_options' \in Selections(pp_list)
            /\ errors_logged' =
                   {pp.Name : pp \in {q \in Range(return_options') :
                                          checkIfInUse(cleaner, q).logged}}
            /\ LET alerted == SelectSeq(return_options',
                                        LAMBDA pp : checkIfInUse(cleaner, pp).alerted)
               IN alerts' = [k \in 1..Len(alerted) |->
                                "Error checking parameter HasValue: " \o alerted[k].Name]
            /\ parametersToDelete' =
                   SelectSeq(return_options', LAMBDA pp : ~checkIfInUse(cleaner, pp).inUse)
            /\ cpc' = IF return_options' = <<>> THEN "end" ELSE "offer"
    /\ UNCHANGED <<cleaner, is_family, app_ver, pp_list, delete_options, DELETED>>
    /\ UNCHANGED <<link_vars, views_vars>>

\* Lines 144-167: the user picks the parameters to delete (none: the script
\* ends); doc.Delete raises for some of them or none, which is logged; the
\* names of the others are alerted. DELETED[0] of an empty list raises.
DeleteParameters ==
    /\ cpc = "offer"
    /\ delete_options' \in Selections(parametersToDelete)
    /\ IF delete_options' = <<>>
       THEN /\ cpc' = "end"
            /\ UNCHANGED <<DELETED, alerts>>
       ELSE \E raising \in SUBSET {pp.Name : pp \in Range(delete_options')} :
               /\ DELETED' = [k \in 1..Len(SelectSeq(delete_options',
                                                       LAMBDA pp : pp.Name \notin raising)) |->
                                 SelectSeq(delete_options',
                                           LAMBDA pp : pp.Name \notin raising)[k].Name]
               /\ IF DELETED' = <<>>
                  THEN cpc' = "raised" /\ alerts' = alerts
                  ELSE cpc' = "end" /\ alerts' = Append(alerts, deleted_alert(DELETED'))
    /\ UNCHANGED <<cleaner, is_family, app_ver, pp_list, return_options,
                   parametersToDelete, errors_logged>>
    /\ UNCHANGED <<link_vars, views_vars>>

NextCleaner == CheckParameters \/ DeleteParameters

\* ------------------------------------------------------------------------
\* Workset Views
\* ------------------------------------------------------------------------

\* The names the host gives to new 3D views
DefaultViewNames == {"3D View 1", "3D View 2", "3D View 3", "3D View 4"}

alertMessage ==
    "No Workset Views were created. View Template setting for Workset V/G Overrides must be unchecked to create Workset Views."

\* str(n) of a number below ten
NumberText(n) == SubSeq("0123456789", n + 1, n + 1)

\* Lines 159-165: the closing message
final_message_of(names, num_updated) ==
    (IF Len(names) > 0 THEN "New 3D Views created:\n- " \o join("\n- ", names) ELSE "")
    \o (IF num_updated > 0
        THEN "\n\n" \o NumberText(num_updated) \o " existing Workset 3D View"
             \o (IF num_updated > 1 THEN "s were" ELSE " was") \o " updated."
        ELSE "")

\* Lines 50-123: a document whose only user workset is Workset1 ends in an
\* alert; otherwise the worksets without a 3D view of their name are kept in
\* worksetsDict and the user picks a view template, "<None>", or nothing.
SelectViewTemplate ==
    /\ vpc = "start"
    /\ IF worksets_collection = {"Workset1"}
       THEN /\ view_alerts' = <<"No Worksets found in the project.">>
            /\ vpc' = "end"
            /\ UNCHANGED <<worksetsDict, existingWorkset3DViews, return_viewTemplate>>
       ELSE /\ worksetsDict' = worksets_collection \ views3D
            /\ existingWorkset3DViews' = views3D \cap worksets_collection
            /\ return_viewTemplate' \in {"", "<None>", "Template"}
            /\ vpc' = "picked"
            /\ UNCHANGED view_alerts
    /\ UNCHANGED <<worksets_collection, views3D, new3DViews, new3DViewsNames,
                   allViews, workset_visibility>>
    /\ UNCHANGED <<link_vars, cleaner_vars>>

\* Lines 125-168. uses_template: a template is applied (the one picked, or
\* with "<None>" the default template of the view type when it is assigned
\* on creation); non_controlled: its workset overrides are unchecked;
\* selected_option: the answer when they are not. When creation goes ahead
\* create3DViewsForEachWorkset makes one isometric view for every key of
\* worksetsDict, which the host names, and then looks each view up in
\* worksetsDict under the name it has: a KeyError is passed over, a name
\* found is set and listed. Then in every view of allViews the workset of
\* its name is set visible and the others hidden.
CreateWorksetViews ==
    /\ vpc = "picked"
    /\ IF return_viewTemplate = ""
       THEN UNCHANGED <<views3D, new3DViews, new3DViewsNames, allViews,
                        workset_visibility, view_alerts>>
       ELSE \E uses_template \in BOOLEAN, non_controlled \in BOOLEAN,
               selected_option \in {"Yes", "Cancel & Exit"} :
               /\ return_viewTemplate # "<None>" => uses_template
               /\ IF ~uses_template \/ non_controlled \/ selected_option = "Yes"
                  THEN /\ new3DViews' \in UNION {ListsOf(S) :
                                                 S \in SUBSET (DefaultViewNames \ views3D)}
                       /\ Len(new3DViews') = Cardinality(worksetsDict)
                       /\ new3DViewsNames' =
                              SelectSeq(new3DViews', LAMBDA name : name \in worksetsDict)
                       /\ views3D' = views3D \cup Range(new3DViews')
                       /\ allViews' = Range(new3DViews') \cup existingWorkset3DViews
                       /\ view_alerts' =
                              IF final_message_of(new3DViewsNames',
                                                  Cardinality(existingWorkset3DViews)) # ""
                              THEN <<final_message_of(new3DViewsNames',
                                                      Cardinality(existingWorkset3DViews))>>
                              ELSE <<>>
                  ELSE /\ view_alerts' =
                              <<alertMessage>>
                              \o (IF existingWorkset3DViews # {}
                                  THEN <<final_message_of(<<>>,
                                             Cardinality(existingWorkset3DViews))>>
                                  ELSE <<>>)
                       /\ UNCHANGED <<views3D, new3DViews, new3DViewsNames, allViews>>
               /\ workset_visibility' =
                      [v \in allViews' |-> {w \in worksets_collection : w = v}]
    /\ vpc' = "end"
    /\ UNCHANGED <<worksets_collection, worksetsDict, existingWorkset3DViews,
                   return_viewTemplate>>
    /\ UNCHANGED <<link_vars, cleaner_vars>>

NextViews == SelectViewTemplate \/ CreateWorksetViews

\* Link names of the naming standard and others
ProjectHead == "GSK-HTL-RE-ZZ-M3-"
Disciplines == {"A", "S"}
DigitRuns == {"0001", "0011", "0002", "100001", "200001", "3"}
StandardNames == {ProjectHead \o d \o "-" \o g : d \in Disciplines, g \in DigitRuns}
OtherNames == {"GSK-HTL-ZZ-ZZ-M3-A-0001", "GSK-HTL-RE-ZZ-M3-A-0001 Site",
               "GSK-HTL-RE-ZZ-M3-A-100002",
               "", "randomfile", "GSK-HTL-RE-ZZ-M3-A-"}
LinkNames == StandardNames \cup OtherNames
DocumentTitles == {"Project1", "GSK-HTL-RE-ZZ-M3-A-0001"}
Documents ==
    {[enabled |-> TRUE, worksets |-> fresh_worksets, homes |-> {"Workset1"}],
     [enabled |-> FALSE, worksets |-> {"Workset1"}, homes |-> {"Workset1"}],
     [enabled |-> FALSE, worksets |-> {"Workset1", "Z-Linked RVT-A-HTL"},
      homes |-> {"Workset1"}]}

Init == InitWith(LinkNames, DocumentTitles, Documents, {{}})

Spec == Init /\ [][Next]_vars

\* Runs over the parts of one model, in every order
OrderNames == {"GSK-HTL-RE-ZZ-M3-A-0001", "GSK-HTL-RE-ZZ-M3-A-0002",
               "GSK-HTL-RE-ZZ-M3-A-100001", "GSK-HTL-RE-ZZ-M3-A-100002",
               "GSK-HTL-RE-ZZ-M3-A-0001 Site", "GSK-HTL-RE-ZZ-M3-S-3", "randomfile"}

InitOrder == InitWith(OrderNames, DocumentTitles, Documents, {{}})

SpecOrder == InitOrder /\ [][Next]_vars

\* Runs over link names in which the digits or the description occur twice
RepeatNames == {"GSK-HTL-01-ZZ-M3-A-01", "GSK-HTL-01-ZZ-M3-A-02",
                "GSK-HTL-RE-ZZ-M3-A-0001A", "GSK-HTL-RE-ZZ-M3-A-0001 Site"}

InitRepeat == InitWith(RepeatNames, DocumentTitles, Documents, {{}})

SpecRepeat == InitRepeat /\ [][Next]_vars

\* Runs in which host calls raise: no call, one call, or every call of a link
FaultNames == {"GSK-HTL-RE-ZZ-M3-A-0001", "GSK-HTL-RE-ZZ-M3-S-3", "randomfile"}
HostFaults == {{}} \cup {{c} : c \in HostCalls} \cup {HostCalls}

InitFaults == InitWith(FaultNames, DocumentTitles, Documents, HostFaults)

SpecFaults == InitFaults /\ [][Next]_vars

\* Runs over a document that has link worksets already, to their end
RunNames == {"GSK-HTL-RE-ZZ-M3-A-0001", "randomfile"}
RunTitles == {"Project1"}
RunDocuments ==
    {[enabled |-> TRUE, worksets |-> fresh_worksets, homes |-> {"Workset1"}],
     [enabled |-> FALSE,
      worksets |-> {"Workset1", "RVT", "Z-Linked RVT-A", "Z-Linked RVT-A-HTL"},
      homes |-> {"Workset1", "Z-Linked RVT-A"}]}
RunFaults == {{}, {"SetWorkset"}}

InitRun == InitWith(RunNames, RunTitles, RunDocuments, RunFaults)

SpecRun == InitRun /\ [][NextRun]_vars

\* Most elements collected for one parameter
MaxElements == 2

\* Storage type, whether the parameter is Yes/No, and values it may hold
StorageKinds ==
    {[StorageType |-> "String", YesNo |-> FALSE, values |-> {StrValue(""), StrValue("x")}],
     [StorageType |-> "Integer", YesNo |-> FALSE, values |-> {IntValue(0), IntValue(5)}],
     [StorageType |-> "Integer", YesNo |-> TRUE, values |-> {IntValue(0), IntValue(1)}],
     [StorageType |-> "Double", YesNo |-> FALSE, values |-> {FloatValue(0), FloatValue(2)}],
     [StorageType |-> "ElementId", YesNo |-> FALSE, values |-> {ElementIdValue}]}

\* The parameter as one element of the bound categories has it: not at all,
\* without a value, with a value, or with a value whose reading raises
ElementStates(kind) ==
    {[present |-> FALSE, HasValue |-> FALSE, raises |-> FALSE, value |-> NoneValue],
     [present |-> TRUE, HasValue |-> FALSE, raises |-> FALSE, value |-> NoneValue],
     [present |-> TRUE, HasValue |-> TRUE, raises |-> TRUE, value |-> NoneValue]}
    \cup {[present |-> TRUE, HasValue |-> TRUE, raises |-> FALSE, value |-> v] :
              v \in kind.values}

\* The parameters of a name: every kind, over no element or up to MaxElements
ParametersNamed(name) ==
    UNION {{[Name |-> name, StorageType |-> kind.StorageType, YesNo |-> kind.YesNo,
             elements |-> es] :
               es \in UNION {[1..n -> ElementStates(kind)] : n \in 0..MaxElements}} :
           kind \in StorageKinds}

\* A second parameter: one without elements, one with an empty text
SecondParameters ==
    {[Name |-> "Cost", StorageType |-> "String", YesNo |-> FALSE, elements |-> es] :
        es \in {<<>>, <<[present |-> TRUE, HasValue |-> TRUE, raises |-> FALSE,
                          value |-> StrValue("")]>>}}

\* A cleaner starts: on a family document, on a project without parameters,
\* or on a project with one or two parameters, sorted by name
InitCleaner ==
    /\ LinkIdle
    /\ ViewsIdle
    /\ cleaner \in {"Project", "Shared"}
    /\ app_ver \in Versions
    /\ \/ is_family = TRUE /\ pp_list = <<>>
       \/ is_family = FALSE /\ pp_list = <<>>
       \/ is_family = FALSE /\ \E a \in ParametersNamed("Area") : pp_list = <<a>>
       \/ is_family = FALSE /\ \E a \in ParametersNamed("Area"), b \in SecondParameters :
                                  pp_list = <<a, b>>
    /\ return_options = <<>> /\ parametersToDelete = <<>> /\ delete_options = <<>>
    /\ DELETED = <<>> /\ errors_logged = {} /\ alerts = <<>>
    /\ cpc = "start"

SpecCleaner == InitCleaner /\ [][NextCleaner]_vars

\* Documents for Workset Views: user worksets and 3D views
ViewWorksets == {"Workset1", "Arch", "Struct", "3D View 1"}
ViewNames == {"Arch", "{3D}", "3D View 1"}

InitViews ==
    /\ LinkIdle
    /\ CleanerIdle
    /\ worksets_collection \in SUBSET ViewWorksets \ {{}}
    /\ views3D \in SUBSET ViewNames
    /\ worksetsDict = {} /\ existingWorkset3DViews = {} /\ return_viewTemplate = ""
    /\ new3DViews = <<>> /\ new3DViewsNames = <<>> /\ allViews = {}
    /\ workset_visibility = <<>> /\ view_alerts = <<>>
    /\ vpc = "start"

SpecViews == InitViews /\ [][NextViews]_vars

\* ------------------------------------------------------------------------
\* Properties of the derived names
\* ------------------------------------------------------------------------

\* The links taken by the loop so far
Taken == 1..Len(derived)

\* The name of link i matched the pattern
Matches(i) == derived[i].matched

\* The tokens of a matching link name
Tokens(i) == derived[i].groups

\* Link i matched and its pass derived names
Named(i) == Matches(i) /\ ~derived[i].raised

\* The other names of the context of link i: the other link names and the
\* document title
Context(i) ==
    ({revit_links[j] : j \in 1..Len(revit_links)} \ {revit_links[i]}) \cup {file_name}

\* No other name of the context starts with the base name of link i
Alone(i) == \A n \in Context(i) : ~startswith(n, derived[i].base_name)

\* The segments the naming options ask for
WantedOriginator(g) == IF g[6] # "A" \/ add_originator THEN "-" \o g[2] ELSE ""
WantedZone(g) == IF ~add_zone \/ g[3] = "ZZ" THEN "" ELSE "-" \o g[3]

\* discipline + optional originator + optional zone
PlainName(g) == g[6] \o WantedOriginator(g) \o WantedZone(g)

AllDigits(s) == \A k \in 1..Len(s) : CharAt(s, k) \in DigitChars

AllDifferent == \A i, j \in 1..Len(revit_links) : i # j => revit_links[i] # revit_links[j]

\* C1: a link name that does not match the pattern gets the workset name
\* "Z-Linked RVT-" + link name and the instance name link name, whatever the
\* other names, the title and the two options are.
C1_Fallback ==
    \A i \in Taken :
        ~Matches(i) =>
            /\ ~derived[i].raised
            /\ derived[i].workset_name = "Z-Linked RVT-" \o revit_links[i]
            /\ derived[i].instance_name = revit_links[i]

\* The empty name and "randomfile" were both taken in one run.
C1_Witness ==
    /\ Len(derived) = 2
    /\ revit_links = <<"", "randomfile">>
    /\ derived[1].workset_name = "Z-Linked RVT-"
    /\ derived[2].workset_name = "Z-Linked RVT-randomfile"

\* C2: in one run over pairwise different link names, no two links get the
\* same workset name.
C2_UniqueWorksetNames ==
    AllDifferent =>
        \A i, j \in Taken :
            (i # j /\ ~derived[i].raised /\ ~derived[j].raised)
                => derived[i].workset_name # derived[j].workset_name

\* C3: no pass of the loop ends in an exception, whatever the link name is.
C3_NoException == \A i \in Taken : ~derived[i].raised

\* C4: for a matching link name the originator segment follows the
\* discipline in the instance name exactly when the discipline is not "A" or
\* the originator was asked for.
C4_Originator ==
    \A i \in Taken :
        Named(i) =>
            LET g == Tokens(i)
                present == g[6] # "A" \/ add_originator
            IN /\ derived[i].originator = (IF present THEN "-" \o g[2] ELSE "")
               /\ present => startswith(derived[i].instance_name, g[6] \o "-" \o g[2])
               /\ ~present => /\ startswith(derived[i].instance_name,
                                            g[6] \o derived[i].zone)
                              /\ ~startswith(derived[i].instance_name,
                                             g[6] \o "-" \o g[2])

\* One run without the originator option: the architecture link has no
\* originator segment, the structure link has it.
C4_Witness ==
    /\ ~add_originator
    /\ Len(derived) = 2
    /\ Named(1) /\ Tokens(1)[6] = "A" /\ derived[1].originator = ""
    /\ Named(2) /\ Tokens(2)[6] = "S" /\ derived[2].originator = "-HTL"

ScenarioName == "GSK-HTL-RE-ZZ-M3-A-0001"
ScenarioBase == "GSK-HTL-RE-ZZ-M3-A-"

\* No other name of the context of link i starts with ScenarioBase
NoneLike(i) == \A n \in Context(i) : ~startswith(n, ScenarioBase)

\* C6 as stated: "GSK-HTL-RE-ZZ-M3-A-0001" with the zone asked for and no
\* similar name gives "A-HTL" with the originator and "A" without it.
C6_ZoneSuppressed ==
    \A i \in Taken :
        (revit_links[i] = ScenarioName /\ add_zone /\ NoneLike(i)) =>
            /\ ~derived[i].raised
            /\ derived[i].instance_name = (IF add_originator THEN "A-HTL" ELSE "A")
            /\ derived[i].workset_name =
                   (IF add_originator THEN "Z-Linked RVT-A-HTL" ELSE "Z-Linked RVT-A")

\* C6 as the script has it: the zone is the third token, "RE", and is kept:
\* "A-HTL-RE" with the originator and "A-RE" without it.
C6_ZoneKept ==
    \A i \in Taken :
        (revit_links[i] = ScenarioName /\ add_zone /\ NoneLike(i)) =>
            /\ ~derived[i].raised
            /\ derived[i].instance_name = (IF add_originator THEN "A-HTL-RE" ELSE "A-RE")
            /\ derived[i].workset_name =
                   (IF add_originator THEN "Z-Linked RVT-A-HTL-RE"
                    ELSE "Z-Linked RVT-A-RE")

C6_Witness ==
    \E i \in Taken :
        /\ revit_links[i] = ScenarioName /\ add_zone /\ add_originator /\ NoneLike(i)
        /\ Len(revit_links) = 2
        /\ derived[i].workset_name = "Z-Linked RVT-A-HTL-RE"

\* The third scenario's link name
InternalName == "GSK-HTL-RE-ZZ-M3-A-100001"

\* C7 as stated: "GSK-HTL-RE-ZZ-M3-A-100001" with any other name of the
\* context starting with its base name gets the suffix "-Internal 1".
C7_InternalOrdinal ==
    \A i \in Taken :
        (revit_links[i] = InternalName /\ ~NoneLike(i)) =>
            /\ ~derived[i].raised
            /\ derived[i].workset_name =
                   "Z-Linked RVT-" \o PlainName(Tokens(i)) \o "-Internal 1"

\* C7 as the script has it: the suffix is "-Internal", and " 1" follows only
\* when another name of the context starts with the base name followed by "1".
C7_InternalOrdinalWhenParts ==
    \A i \in Taken :
        (revit_links[i] = InternalName /\ ~NoneLike(i)) =>
            LET parts == {n \in Context(i) : startswith(n, ScenarioBase \o "1")}
            IN /\ ~derived[i].raised
               /\ derived[i].workset_name =
                      "Z-Linked RVT-" \o PlainName(Tokens(i)) \o
                      (IF parts # {} THEN "-Internal 1" ELSE "-Internal")

\* The link beside a second internal part, and taken after it
C7_Witness ==
    /\ Len(derived) = 2
    /\ revit_links = <<"GSK-HTL-RE-ZZ-M3-A-100002", InternalName>>
    /\ add_originator /\ add_zone
    /\ derived[2].workset_name = "Z-Linked RVT-A-HTL-RE-Internal 1"

\* C8 as stated: a matching link name whose digit run ends in "1" and whose
\* base name starts no other name of the context gets prefix + instance name
\* with no suffix and no kind label, whatever the first digit is.
C8_LoneNoSuffix ==
    \A i \in Taken :
        (Matches(i) /\ CharAt(Tokens(i)[7], Len(Tokens(i)[7])) = "1" /\ Alone(i)) =>
            /\ ~derived[i].raised
            /\ derived[i].instance_name = PlainName(Tokens(i))
            /\ derived[i].workset_name = "Z-Linked RVT-" \o PlainName(Tokens(i))

\* C8 as the script has it: that holds when the first digit is neither 1 nor
\* 2; an architecture link whose run starts with 1 or 2 gets the kind label
\* alone.
C8_LoneNoSuffixUnlessKind ==
    \A i \in Taken :
        (Matches(i) /\ CharAt(Tokens(i)[7], Len(Tokens(i)[7])) = "1" /\ Alone(i)) =>
            LET g == Tokens(i)
                first == CharAt(g[7], 1)
            IN /\ ~derived[i].raised
               /\ first \notin {"1", "2"} =>
                     /\ derived[i].instance_name = PlainName(g)
                     /\ derived[i].workset_name = "Z-Linked RVT-" \o PlainName(g)
               /\ (first \in {"1", "2"} /\ g[6] = "A") =>
                     derived[i].workset_name =
                         "Z-Linked RVT-" \o PlainName(g) \o
                         (IF first = "1" THEN "-Internal" ELSE "-Facade")

\* A lone link whose run is 0011 was named without a suffix.
C8_Witness ==
    \E i \in Taken :
        /\ Matches(i) /\ Tokens(i)[7] = "0011" /\ Alone(i)
        /\ Len(revit_links) = 2
        /\ derived[i].workset_name = "Z-Linked RVT-" \o PlainName(Tokens(i))

\* C9: a matching link name whose digit run is "0001" and whose base name
\* starts no other name of the context gets prefix + discipline + optional
\* originator + optional zone, for every discipline and every option.
C9_FirstPartNoSuffix ==
    \A i \in Taken :
        (Matches(i) /\ Tokens(i)[7] = "0001" /\ Alone(i)) =>
            /\ ~derived[i].raised
            /\ derived[i].workset_name =
                   linked_file_prefix \o Tokens(i)[6] \o WantedOriginator(Tokens(i))
                       \o WantedZone(Tokens(i))

\* A structure link 0001 taken after a link of another base name
C9_Witness ==
    /\ Len(derived) = 2
    /\ Matches(1)
    /\ Matches(2) /\ Tokens(2)[6] = "S" /\ Tokens(2)[7] = "0001" /\ Alone(2)
    /\ add_zone /\ ~add_originator
    /\ derived[2].workset_name = "Z-Linked RVT-S-HTL-RE"

\* C10: for a matching link name whose discipline is not "A", neither name
\* holds "Internal" or "Facade", and what follows discipline, originator and
\* zone is nothing or "-" and digits.
C10_LabelsOnlyForArchitecture ==
    \A i \in Taken :
        (Named(i) /\ Tokens(i)[6] # "A") =>
            LET plain == PlainName(Tokens(i))
                inst == derived[i].instance_name
                suffix == SubSeq(inst, Len(plain) + 1, Len(inst))
            IN /\ ~Contains(inst, "Internal") /\ ~Contains(inst, "Facade")
               /\ ~Contains(derived[i].workset_name, "Internal")
               /\ ~Contains(derived[i].workset_name, "Facade")
               /\ startswith(inst, plain)
               /\ suffix = "" \/ (CharAt(suffix, 1) = "-" /\ Len(suffix) > 1
                                    /\ AllDigits(SubSeq(suffix, 2, Len(suffix))))

\* The last character of the digit run of a matching link
LastDigit(i) == CharAt(Tokens(i)[7], Len(Tokens(i)[7]))

\* What follows discipline, originator and zone and a "-" in the instance
\* name of link i
Suffix(i) ==
    SubSeq(derived[i].instance_name, Len(PlainName(Tokens(i))) + 2,
           Len(derived[i].instance_name))

\* C11: a matching link name whose digit run has two digits or more and ends
\* in a digit greater than 1 gets, after discipline, originator and zone, a
\* "-" and a suffix that ends in that digit, alone or not; a suffix that
\* holds a model kind is the kind, a space and the digit.
C11_OrdinalSuffix ==
    \A i \in Taken :
        (Matches(i) /\ Len(Tokens(i)[7]) >= 2 /\ IntOf(LastDigit(i)) > 1) =>
            /\ ~derived[i].raised
            /\ derived[i].workset_name = linked_file_prefix \o derived[i].instance_name
            /\ startswith(derived[i].instance_name, PlainName(Tokens(i)) \o "-")
            /\ Len(Suffix(i)) >= 1
            /\ CharAt(Suffix(i), Len(Suffix(i))) = LastDigit(i)
            /\ Contains(Suffix(i), "Internal") => Suffix(i) = "Internal " \o LastDigit(i)
            /\ Contains(Suffix(i), "Facade") => Suffix(i) = "Facade " \o LastDigit(i)

\* An internal part 2 whose base name starts the document title, and a
\* structure link 0002 whose base name starts no other name
C11_Witness ==
    /\ Len(derived) = 2
    /\ revit_links = <<"GSK-HTL-RE-ZZ-M3-A-100002", "GSK-HTL-RE-ZZ-M3-S-0002">>
    /\ ~Alone(1) /\ Alone(2)
    /\ Suffix(1) = "Internal 2"
    /\ Suffix(2) = "02"

\* Links i and j were named, their names share the base name, the digit run
\* of i ends in "1" and that of j in "2"
PartOneAndTwo(i, j) ==
    /\ i # j /\ Named(i) /\ Named(j)
    /\ derived[i].base_name = derived[j].base_name
    /\ startswith(revit_links[i], derived[i].base_name)
    /\ startswith(revit_links[j], derived[j].base_name)
    /\ LastDigit(i) = "1" /\ LastDigit(j) = "2"

\* The digit of the run of link i that the script looks for after the base
\* name in the other names: the first for an architecture link whose run
\* starts with 1 or 2, the second otherwise
PartDigit(i) ==
    LET g == Tokens(i) IN
    IF g[6] = "A" /\ CharAt(g[7], 1) \in {"1", "2"} THEN CharAt(g[7], 1)
    ELSE CharAt(g[7], 2)

\* The last character of the instance name of link i
LastChar(i) == CharAt(derived[i].instance_name, Len(derived[i].instance_name))

\* C12 as stated: of two links sharing the base name with runs ending in "1"
\* and "2", the second taken, the one ending in "2" gets a suffix and the one
\* ending in "1" gets none, and the workset names differ.
C12_SecondOnly ==
    \A i, j \in Taken :
        (PartOneAndTwo(i, j) /\ i < j) =>
            /\ derived[i].instance_name = PlainName(Tokens(i))
            /\ derived[j].instance_name # PlainName(Tokens(j))
            /\ derived[i].workset_name # derived[j].workset_name

\* C12 as the script has it: the name of the link ending in "2" ends in "2",
\* the name of the link ending in "1" does not, in either order; the link
\* ending in "1" gets a suffix too, and it ends in "1" exactly when another
\* name of the context starts with the base name and its part digit.
C12_PartsDiffer ==
    \A i, j \in Taken :
        PartOneAndTwo(i, j) =>
            /\ LastChar(j) = "2"
            /\ LastChar(i) # "2"
            /\ derived[i].workset_name # derived[j].workset_name
            /\ derived[i].instance_name # PlainName(Tokens(i))
            /\ startswith(derived[i].instance_name, PlainName(Tokens(i)) \o "-")
            /\ (\E n \in Context(i) :
                    startswith(n, derived[i].base_name \o PartDigit(i)))
                 <=> (Len(Suffix(i)) > 0 /\ CharAt(Suffix(i), Len(Suffix(i))) = "1")

\* Parts 0001 and 0002 of one model, taken in that order, got "-1" and "-2".
C12_Witness ==
    /\ Len(derived) = 2
    /\ revit_links = <<"GSK-HTL-RE-ZZ-M3-S-0001", "GSK-HTL-RE-ZZ-M3-S-0002">>
    /\ PartOneAndTwo(1, 2)
    /\ Suffix(1) = "1" /\ Suffix(2) = "2"

\* The orders of n links
Orders(n) == {f \in [1..n -> 1..n] : \A a, b \in 1..n : a # b => f[a] # f[b]}

\* revit_links in the order f
Reordered(f) == [k \in 1..Len(revit_links) |-> revit_links[f[k]]]

\* C13 as stated: the names of the N-th link are derived from the names of
\* the links taken up to it, so that they change with the order.
C13_FromLinksSoFar ==
    \A i \in Taken :
        LET r == resolve(revit_links[i], SubSeq(revit_links, 1, i), file_name,
                         add_originator, add_zone)
        IN /\ derived[i].raised = r.raised
           /\ derived[i].workset_name = r.workset_name
           /\ derived[i].instance_name = r.instance_name

\* C13 as the script has it: the names of the link just taken are those the
\* script derives for it from the same links in any other order, whatever
\* worksets the earlier passes created or used.
C13_AnyOrder ==
    Len(derived) > 0 =>
        LET i == Len(derived) IN
        \A f \in Orders(Len(revit_links)) :
            LET r == resolve(revit_links[i], Reordered(f), file_name,
                             add_originator, add_zone)
            IN /\ derived[i].raised = r.raised
               /\ derived[i].workset_name = r.workset_name
               /\ derived[i].instance_name = r.instance_name

\* Part 0002 taken before part 0001: the first taken has its "-2" and the
\* second its "-1", as in the other order.
C13_Witness ==
    /\ Len(derived) = 2
    /\ revit_links = <<"GSK-HTL-RE-ZZ-M3-A-0002", "GSK-HTL-RE-ZZ-M3-A-0001">>
    /\ add_originator /\ ~add_zone
    /\ derived[1].workset_name = "Z-Linked RVT-A-HTL-2"
    /\ derived[2].workset_name = "Z-Linked RVT-A-HTL-1"
    /\ new_workset_names = <<"Z-Linked RVT-A-HTL-2", "Z-Linked RVT-A-HTL-1">>

\* ------------------------------------------------------------------------
\* Properties of the host calls
\* ------------------------------------------------------------------------

\* The k-th host call made for link i raised: the host fails it, or it is a
\* Workset.Create after which the try block made no other call
CallRaised(i, k) ==
    \/ host_calls[i][k] \in host_fault[i]
    \/ host_calls[i][k] = "Create" /\ Len(host_calls[i]) = 1

\* The links for which a workset was created or located
Stepped ==
    Len(used_workset_names)
        + Cardinality({i \in Taken : host_calls[i] # <<>> /\ host_calls[i][1] = "Create"})

\* C14: a host call that raises for a link does not end the run: the run
\* ends in an exception only when deriving a name raised; every link named
\* gets its workset created or located; each raising call made is reported
\* once and no call is made twice for a link; the loop goes on to the next
\* link and ends only after the last.
C14_HostFailureNotFatal ==
    /\ pc = "raised" => derived[Len(derived)].raised
    /\ pc = "loop" => (count = Len(derived) /\ count <= Len(revit_links))
    /\ pc = "done" => (count = Len(derived) /\ count = Len(revit_links))
    /\ Stepped = Cardinality({i \in Taken : ~derived[i].raised})
    /\ \A i \in Taken :
          LET calls == host_calls[i] IN
          /\ \A k, h \in 1..Len(calls) : k # h => calls[k] # calls[h]
          /\ Len(errors_printed[i]) =
                 Cardinality({k \in 1..Len(calls) : CallRaised(i, k)})

\* Setting the workset of the first link raised and was reported; the second
\* link got its new workset, name and mark, and the loop ended.
C14_Witness ==
    /\ pc = "done"
    /\ Len(derived) = 2
    /\ host_fault[1] = {"SetWorkset"} /\ host_fault[2] = {}
    /\ host_calls[1] = <<"Create", "SetWorkset">>
    /\ errors_printed[1] = <<"already exists">>
    /\ errors_printed[2] = <<>>
    /\ Len(host_calls[2]) = 5
    /\ link_workset[2] = derived[2].workset_name
    /\ derived[1].workset_name # derived[2].workset_name

\* The pass of the link just taken located a workset of the snapshot
Located(i) ==
    /\ ~derived[i].raised
    /\ host_calls[i] = <<>> \/ host_calls[i][1] # "Create"

\* C15: after the pass of a link for which a workset of the snapshot was
\* located and no host call raised, the link and its type are on that
\* workset, whatever worksets they were on.
C15_MovedToLocated ==
    (pc = "loop" /\ Len(derived) > 0) =>
        LET i == Len(derived)
            Ws == used_workset_names[Len(used_workset_names)]
        IN (Located(i) /\ errors_printed[i] = <<>>) =>
               /\ link_workset[i] = Ws
               /\ link_type_workset[i] = Ws

\* C16: every workset deleted is on the unused list: a workset of the
\* snapshot whose name starts with "Z-Linked RVT" or "Z-Linked-RVT" and that
\* the loop neither used nor created.
C16_OnlyUnusedDeleted ==
    \A name \in deleted_worksets :
        /\ name \in Range(unused_workset_names)
        /\ name \in workset_dict
        /\ startswith(name, "Z-Linked RVT") \/ startswith(name, "Z-Linked-RVT")
        /\ name \notin Range(used_workset_names)
        /\ name \notin Range(new_workset_names)

\* ------------------------------------------------------------------------
\* Properties of the parameter cleaners
\* ------------------------------------------------------------------------

\* C17: when parameters were selected for deletion the script ends, without
\* an exception, after an alert that names the parameters deleted and no
\* other, also when none was deleted.
C17_AlertNamesDeleted ==
    (delete_options # <<>> /\ cpc \in {"end", "raised"}) =>
        /\ cpc = "end"
        /\ alerts # <<>>
        /\ \A pp \in Range(pp_list) :
              Contains(alerts[Len(alerts)], pp.Name) <=> pp.Name \in Range(DELETED)

\* Element e holds a value of the parameter other than an empty text, or a
\* value that cannot be read
HoldsValue(e) ==
    e.present /\ e.HasValue /\ (e.raises \/ e.value # StrValue(""))

\* C18: a parameter on the list offered for deletion has no value other
\* than an empty text on any element collected for it, whatever its storage
\* type, and no error was logged when checking it.
C18_OnlyUnusedOffered ==
    \A pp \in Range(parametersToDelete) :
        /\ \A e \in Range(pp.elements) : ~HoldsValue(e)
        /\ pp.Name \notin errors_logged

\* ------------------------------------------------------------------------
\* Properties of Workset Views
\* ------------------------------------------------------------------------

\* A template or "<None>" was picked and the views were created
WentAhead ==
    /\ vpc = "end" /\ return_viewTemplate # ""
    /\ view_alerts = <<>> \/ view_alerts[1] # alertMessage

\* C19: after a run that created the views, every workset that had no 3D
\* view of its name has one among the new views, every new view has the name
\* of such a workset, and the new views are the names of the closing message.
C19_ViewsNamedAfterWorksets ==
    WentAhead =>
        /\ worksetsDict \subseteq Range(new3DViews)
        /\ Range(new3DViews) \subseteq worksetsDict
        /\ new3DViewsNames = new3DViews
        /\ worksetsDict # {} =>
               /\ view_alerts # <<>>
               /\ \A w \in worksetsDict : Contains(view_alerts[1], "- " \o w)

\* ------------------------------------------------------------------------
\* Properties of the base name
\* ------------------------------------------------------------------------

\* C20: the base name of a matching link name is the name up to its digit
\* run: the first six tokens, each followed by "-", and the name is the base
\* name followed by the digit run and the description.
C20_BaseNameIsPrefix ==
    \A i \in Taken :
        Matches(i) =>
            LET g == Tokens(i) IN
            /\ derived[i].base_name =
                   g[1] \o "-" \o g[2] \o "-" \o g[3] \o "-" \o g[4] \o "-" \o g[5]
                        \o "-" \o g[6] \o "-"
            /\ startswith(revit_links[i], derived[i].base_name)
            /\ revit_links[i] = derived[i].base_name \o g[7] \o g[8]

\* ------------------------------------------------------------------------
\* Properties of the worksets across a run
\* ------------------------------------------------------------------------

\* The user worksets the document had when the loop started
PreExisting == IF enable_worksharing THEN fresh_worksets ELSE workset_dict

\* No workset the document had before the loop has a name that starts with
\* the workset name derived for link i
NothingToLocate(i) ==
    /\ ~derived[i].raised
    /\ \A name \in PreExisting : ~startswith(name, derived[i].workset_name)

\* C21: when no pre-existing workset name starts with the workset name
\* derived for a link, then after its pass the document has a workset of
\* exactly that name, the link and its type are on it, and the Name and Mark
\* of the link are the derived instance name, also when an earlier link of
\* the run was given the same workset name and had the workset created.
C21_CreateOrLocate ==
    \A i \in Taken :
        NothingToLocate(i) =>
            /\ derived[i].workset_name \in worksets
            /\ link_workset[i] = derived[i].workset_name
            /\ link_type_workset[i] = derived[i].workset_name
            /\ link_instance_name[i] = derived[i].instance_name
            /\ link_mark[i] = derived[i].instance_name

\* C22: every workset on the unused list is empty of links: once the list is
\* made, no link and no link type of the document is on a workset named in
\* it, also for links whose workset was not created or not changed.
C22_UnusedHoldNoLinks ==
    \A i \in DOMAIN link_workset :
        /\ link_workset[i] \notin Range(unused_workset_names)
        /\ link_type_workset[i] \notin Range(unused_workset_names)

\* The worksets of the snapshot the document no longer has
Gone == workset_dict \ worksets

\* The worksets selected for deletion: those of the snapshot whose name
\* occurs in the joined unused names
SelectedForDeletion ==
    {name \in workset_dict : Contains(join(",\n", unused_workset_names), name)}

\* The text has a line that is this name
HasLine(text, name) ==
    \/ Contains(text, "\n" \o name \o ",\n")
    \/ Contains(text, "\n" \o name \o "\n\n")
    \/ Len(text) > Len(name) /\ SubSeq(text, Len(text) - Len(name), Len(text)) = "\n" \o name

\* The unused names were found and the script has ended
Closed == pc = "end" /\ unused_workset_names # <<>>

\* C23: a workset leaves the document only when the Revit version is 2023
\* or later, the user confirmed the prompt and the workset is editable; with
\* Revit 2022 or earlier the unused names are listed in the alert and none
\* is deleted; every workset selected that is not editable stays and is
\* named in the closing alert as one to make editable.
C23_DeleteOnlyWhenAllowed ==
    /\ \A name \in Gone \cup deleted_worksets :
          /\ ver >= 2023
          /\ delete_empty_link_worksets
          /\ name \in is_editable
    /\ (Closed /\ ver < 2023) =>
          /\ Gone = {}
          /\ deleted_worksets = {}
          /\ \A name \in Range(unused_workset_names) : HasLine(alert, name)
          /\ Contains(alert, "Delete following Worksets manually")
    /\ (Closed /\ ver >= 2023 /\ ~delete_empty_link_worksets) =>
          Gone = {} /\ alert = ""
    /\ (Closed /\ ver >= 2023 /\ delete_empty_link_worksets) =>
          \A name \in SelectedForDeletion :
              name \notin is_editable =>
                  /\ name \in worksets
                  /\ name \in not_editable_worksets
                  /\ Contains(alert, "Make these worksets Editable")
                  /\ HasLine(alert, name)

\* With Revit 2023 the user confirmed; one selected workset was deleted and
\* another, not editable, stayed.
C23_Witness ==
    /\ Closed /\ ver >= 2023 /\ delete_empty_link_worksets
    /\ deleted_worksets # {} /\ Gone = deleted_worksets
    /\ not_editable_worksets # {}
    /\ not_editable_worksets \subseteq worksets

\* ------------------------------------------------------------------------
\* Properties of the form of the names
\* ------------------------------------------------------------------------

\* The last character of s is "-"
EndsWithDash(s) == Len(s) > 0 /\ CharAt(s, Len(s)) = "-"

\* C24: the names derived for a link that matched the pattern do not end
\* with "-": where a "-" is appended after the discipline, originator and
\* zone, at least one character follows it.
C24_NoTrailingDash ==
    \A i \in Taken :
        Named(i) =>
            /\ ~EndsWithDash(derived[i].workset_name)
            /\ ~EndsWithDash(derived[i].instance_name)

====
